---- MODULE Spec2Model ----
(***************************************************************************)
(* A model of contracts/dao-voting-adapter/schema/generate_full_schema.py: *)
(* the script that merges instantiate_msg.json, execute_msg.json,          *)
(* query_msg.json and every *_response.json of the working directory into  *)
(* dao_voting_adapter_full_schema.json.                                    *)
(*                                                                         *)
(* A Python dict is a sequence of <<key, value>> pairs with distinct keys, *)
(* in insertion order.  A JSON text is abstracted to whether it is         *)
(* syntactically valid, its layout, and the value it denotes; json.load    *)
(* forgets the layout and fails on an invalid text, json.dump(indent=2)    *)
(* always produces the layout "indent2".  File names are strings.          *)
(***************************************************************************)
EXTENDS Integers, Sequences, FiniteSets, TLC

VARIABLES
    dir,        \* the working directory: file name -> entry
    pc,         \* the position of the script
    run,        \* the number of the current run of the script
    schema,     \* the dict `schema` (line 6)
    responses,  \* the list `responses` (line 21)
    idx,        \* the position of the loop of line 40 in `responses`
    out0,       \* history: the entry of the output file when the run started
    trace,      \* history: the I/O operations of the current run, in order
    prev        \* prev: how the previous run ended ("none" in the first run)

vars == <<dir, pc, run, schema, responses, idx, out0, trace, prev>>

----------------------------------------------------------------------------
\* Bounds of the model.

\* How many times the script is run in the same directory.
MaxRuns == 2

\* How many *_response.json files the directory holds at most.
MaxResponseFiles == 2

----------------------------------------------------------------------------
\* Strings (str.endswith, str.split).

\* line 26: f.endswith(suffix)
EndsWith(s, suffix) ==
    /\ Len(s) >= Len(suffix)
    /\ SubSeq(s, Len(s) - Len(suffix) + 1, Len(s)) = suffix

\* The positions at which `sep` occurs in `s`.
Occurrences(s, sep) ==
    {i \in 1..(Len(s) - Len(sep) + 1) : SubSeq(s, i, i + Len(sep) - 1) = sep}

Min(S) == CHOOSE x \in S : \A y \in S : x <= y

\* line 42: s.split(sep)[0], the part of s before the first occurrence of
\* sep, and s itself when sep does not occur.
SplitFirst(s, sep) ==
    IF Occurrences(s, sep) = {} THEN s
    ELSE SubSeq(s, 1, Min(Occurrences(s, sep)) - 1)

\* s with `suffix` removed from its end (s must end with it).
RemoveSuffix(s, suffix) == SubSeq(s, 1, Len(s) - Len(suffix))

----------------------------------------------------------------------------
\* Python dicts.

EmptyDict == << >>

Keys(d) == {d[i][1] : i \in 1..Len(d)}

HasKey(d, k) == k \in Keys(d)

\* d[k]
DictGet(d, k) == d[CHOOSE i \in 1..Len(d) : d[i][1] = k][2]

\* d[k] = v : replaces the value of an existing key in place, appends a new one.
DictSet(d, k, v) ==
    IF HasKey(d, k)
    THEN [i \in 1..Len(d) |-> IF d[i][1] = k THEN <<k, v>> ELSE d[i]]
    ELSE Append(d, <<k, v>>)

\* The mapping a dict stands for, without the order of its keys.
AsMap(d) == [k \in Keys(d) |-> DictGet(d, k)]

----------------------------------------------------------------------------
\* File names and file contents.

INSTANTIATE_MSG == "instantiate_msg.json"
EXECUTE_MSG == "execute_msg.json"
QUERY_MSG == "query_msg.json"
OUTPUT == "dao_voting_adapter_full_schema.json"
MARKER == "_response.json"

\* lines 15-19
required == <<INSTANTIATE_MSG, EXECUTE_MSG, QUERY_MSG>>

\* Names that end with the marker and may be present as regular files.
ResponseNames ==
    { "get_vote_response.json",
      "get_vote_response.json_response.json",
      "sudo_response.json",
      "_response.json" }

\* Entries that are always there: a directory whose name ends with the
\* marker, and a regular file whose name holds the marker but does not end
\* with it.
SUBDIR == "old_response.json"
BACKUP == "b_response.json.bak"

Names == {INSTANTIATE_MSG, EXECUTE_MSG, QUERY_MSG, OUTPUT, SUBDIR, BACKUP}
            \cup ResponseNames

\* Parsed documents.
EmptyDoc == EmptyDict
VoteDoc == << <<"get_vote", EmptyDict>> >>
Docs == {EmptyDoc, VoteDoc}

Json(layout, value) == [valid |-> TRUE, layout |-> layout, value |-> value]
Malformed == [valid |-> FALSE, layout |-> "compact", value |-> EmptyDict]

InputTexts == {Malformed} \cup {Json("compact", d) : d \in Docs}

Absent == [kind |-> "absent", text |-> Malformed]
Directory == [kind |-> "dir", text |-> Malformed]
File(text) == [kind |-> "file", text |-> text]

\* What an earlier tool left under the output name.
StaleOutput == File(Json("compact", VoteDoc))

\* json.load
IsValidJson(text) == text.valid
Parse(text) == text.value

\* json.dump(obj, f, indent=2)
Dump(obj) == Json("indent2", obj)

\* os.path.isfile
IsFile(d, name) == d[name].kind = "file"

\* Mutant: the marker is looked for anywhere in the name (MARKER in f).
ResponseFilesContaining(d) == {f \in Names : IsFile(d, f) /\ Occurrences(f, MARKER) # {}}

\* lines 24-27: the names os.listdir returns that are regular files and end
\* with the marker.
ResponseFiles(d) == {f \in Names : IsFile(d, f) /\ EndsWith(f, MARKER)}

\* The orders in which os.listdir may enumerate a set of names.
Orderings(S) ==
    {s \in [1..Cardinality(S) -> S] : \A i, j \in 1..Cardinality(S) : s[i] = s[j] => i = j}

\* line 42: the key under which a response file is stored.
ResponseKey(file) == SplitFirst(file, MARKER)

\* lines 6-13
InitialSchema ==
    << <<"instantiate", EmptyDict>>, <<"execute", EmptyDict>>,
       <<"query", EmptyDict>>, <<"migrate", EmptyDict>>,
       <<"sudo", EmptyDict>>, <<"responses", EmptyDict>> >>

\* Mutant: the fragment is stored at the top level of the schema.
StoreResponseTopLevel(s, key, doc) == DictSet(s, key, doc)

\* Mutant: a fragment is stored only when the query fragment declares its key.
StoreResponseIfDeclared(s, key, doc) ==
    IF HasKey(DictGet(s, "query"), key)
    THEN DictSet(s, "responses", DictSet(DictGet(s, "responses"), key, doc))
    ELSE s

\* Mutant: the first fragment stored under a key is kept (dict.setdefault).
StoreResponseKeepFirst(s, key, doc) ==
    IF HasKey(DictGet(s, "responses"), key)
    THEN s
    ELSE DictSet(s, "responses", DictSet(DictGet(s, "responses"), key, doc))

\* line 42: schema["responses"][key] = doc
StoreResponse(s, key, doc) ==
    DictSet(s, "responses", DictSet(DictGet(s, "responses"), key, doc))

----------------------------------------------------------------------------
\* The state after the directory was prepared and before the script starts.

Init ==
    /\ \E i, e, q \in {Absent} \cup {File(t) : t \in InputTexts} :
       \E o \in {Absent, Directory, StaleOutput} :
       \E present \in {S \in SUBSET ResponseNames : Cardinality(S) <= MaxResponseFiles} :
       \E content \in [present -> InputTexts] :
          dir = [n \in Names |->
                    CASE n = INSTANTIATE_MSG -> i
                      [] n = EXECUTE_MSG -> e
                      [] n = QUERY_MSG -> q
                      [] n = OUTPUT -> o
                      [] n = SUBDIR -> Directory
                      [] n = BACKUP -> File(Json("compact", VoteDoc))
                      [] OTHER -> IF n \in present THEN File(content[n]) ELSE Absent]
    /\ pc = "start"
    /\ run = 1
    /\ schema = EmptyDict
    /\ responses = << >>
    /\ idx = 1
    /\ out0 = dir[OUTPUT]
    /\ trace = << >>
    /\ prev = "none"

\* Mutant: an error is swallowed and the script goes on to write what it has.
FailSoft == pc' = "emit"

\* An exception nobody catches ends the script (exit status 1).
Fail == pc' = "failed"

\* lines 4-21
Start ==
    /\ pc = "start"
    /\ schema' = InitialSchema
    /\ responses' = << >>
    /\ trace' = Append(trace, <<"print", "Generating full schema...">>)
    /\ pc' = "discover"
    /\ UNCHANGED <<dir, run, idx, out0, prev>>

\* lines 24-29.  os.listdir returns the names in arbitrary order; only the
\* order of the names kept in `responses` is used afterwards.
Discover ==
    /\ pc = "discover"
    /\ \E order \in Orderings(ResponseFiles(dir)) : responses' = order
    /\ trace' = trace \o << <<"listdir", ".">>, <<"print", "Using response files:">> >>
    /\ pc' = "load_instantiate"
    /\ UNCHANGED <<dir, run, schema, idx, out0, prev>>

\* with open(name, "r") as f: schema[key] = json.load(f)
LoadRequired(at, name, key, next) ==
    /\ pc = at
    /\ trace' = Append(trace, <<"read", name>>)
    /\ IF IsFile(dir, name) /\ IsValidJson(dir[name].text)
       THEN /\ schema' = DictSet(schema, key, Parse(dir[name].text))
            /\ pc' = next
       ELSE /\ Fail
            /\ UNCHANGED schema
    /\ UNCHANGED <<dir, run, responses, out0, prev>>

\* lines 31-32
LoadInstantiate ==
    /\ LoadRequired("load_instantiate", INSTANTIATE_MSG, "instantiate", "load_execute")
    /\ UNCHANGED idx

\* Mutant: the execute fragment is stored under the key of the query fragment.
LoadExecuteAsQuery ==
    /\ LoadRequired("load_execute", EXECUTE_MSG, "query", "load_query")
    /\ UNCHANGED idx

\* lines 34-35
LoadExecute ==
    /\ LoadRequired("load_execute", EXECUTE_MSG, "execute", "load_query")
    /\ UNCHANGED idx

\* Mutant: the loop over the response files is skipped.
LoadQuerySkipResponses ==
    /\ LoadRequired("load_query", QUERY_MSG, "query", "emit")
    /\ idx' = 1

\* lines 37-38
LoadQuery ==
    /\ LoadRequired("load_query", QUERY_MSG, "query", "collect")
    /\ idx' = 1

\* Mutant: a response file that cannot be parsed is skipped.
CollectResponseSkipMalformed ==
    /\ pc = "collect"
    /\ IF idx > Len(responses)
       THEN /\ pc' = "emit"
            /\ UNCHANGED <<schema, idx, trace>>
       ELSE LET file == responses[idx] IN
            /\ trace' = Append(trace, <<"read", file>>)
            /\ schema' = IF IsFile(dir, file) /\ IsValidJson(dir[file].text)
                         THEN StoreResponse(schema, ResponseKey(file), Parse(dir[file].text))
                         ELSE schema
            /\ idx' = idx + 1
            /\ UNCHANGED pc
    /\ UNCHANGED <<dir, run, responses, out0, prev>>

\* lines 40-42, one iteration of the loop; the loop ends when every file of
\* `responses` was read.
CollectResponse ==
    /\ pc = "collect"
    /\ IF idx > Len(responses)
       THEN /\ pc' = "emit"
            /\ UNCHANGED <<schema, idx, trace>>
       ELSE LET file == responses[idx] IN
            /\ trace' = Append(trace, <<"read", file>>)
            /\ IF IsFile(dir, file) /\ IsValidJson(dir[file].text)
               THEN /\ schema' = StoreResponse(schema, ResponseKey(file), Parse(dir[file].text))
                    /\ idx' = idx + 1
                    /\ UNCHANGED pc
               ELSE /\ Fail
                    /\ UNCHANGED <<schema, idx>>
    /\ UNCHANGED <<dir, run, responses, out0, prev>>

\* lines 44-45: open(..., "w") creates or truncates the file, json.dump
\* writes the document; opening a directory for writing fails.
Emit ==
    /\ pc = "emit"
    /\ trace' = Append(trace, <<"write", OUTPUT>>)
    /\ IF dir[OUTPUT].kind = "dir"
       THEN /\ Fail
            /\ UNCHANGED dir
       ELSE /\ dir' = [dir EXCEPT ![OUTPUT] = File(Dump(schema))]
            /\ pc' = "notice"
    /\ UNCHANGED <<run, schema, responses, idx, out0, prev>>

\* line 47
Notice ==
    /\ pc = "notice"
    /\ trace' = Append(trace, <<"print", "DAO Voting Adapter full schema generated.">>)
    /\ pc' = "done"
    /\ UNCHANGED <<dir, run, schema, responses, idx, out0, prev>>

\* The script is run again in the same directory; nothing else touches the
\* directory between the runs.
RunAgain ==
    /\ pc \in {"done", "failed"}
    /\ run < MaxRuns
    /\ prev' = pc
    /\ run' = run + 1
    /\ pc' = "start"
    /\ schema' = EmptyDict
    /\ responses' = << >>
    /\ idx' = 1
    /\ out0' = dir[OUTPUT]
    /\ trace' = << >>
    /\ UNCHANGED dir

Next ==
    \/ Start
    \/ Discover
    \/ LoadInstantiate
    \/ LoadExecute
    \/ LoadQuery
    \/ CollectResponse
    \/ Emit
    \/ Notice
    \/ RunAgain

Spec == Init /\ [][Next]_vars

----------------------------------------------------------------------------
\* What the claims speak about.

\* The run wrote the output file.
Written == pc \in {"notice", "done"}

\* The document the output file holds.
WrittenDoc == Parse(dir[OUTPUT].text)

\* The mapping `responses` of the written document.
WrittenResponses == DictGet(WrittenDoc, "responses")

TopLevelKeys == {"instantiate", "execute", "query", "migrate", "sudo", "responses"}

\* The regular files of the directory whose names end with the marker.
Discovered == {f \in DOMAIN dir : dir[f].kind = "file" /\ EndsWith(f, MARKER)}

\* The files that are parsed when nothing fails.
ParsedFiles == {INSTANTIATE_MSG, EXECUTE_MSG, QUERY_MSG} \cup Discovered

\* The query names a query document declares.
QueryNames(doc) == Keys(doc)

\* The operations recorded in a trace that read or write a file.
Reads(t) == {t[i][2] : i \in {j \in 1..Len(t) : t[j][1] = "read"}}
Writes(t) == {i \in 1..Len(t) : t[i][1] = "write"}

\* The last of the files of `responses` that derive key k.
LastWithKey(k) ==
    responses[CHOOSE i \in 1..Len(responses) :
                 /\ ResponseKey(responses[i]) = k
                 /\ \A j \in (i + 1)..Len(responses) : ResponseKey(responses[j]) # k]

\* Two documents are equal up to the order of the keys inside responses.
SameUpToResponseOrder(a, b) ==
    /\ Keys(a) = Keys(b)
    /\ \A k \in Keys(a) \ {"responses"} : DictGet(a, k) = DictGet(b, k)
    /\ AsMap(DictGet(a, "responses")) = AsMap(DictGet(b, "responses"))

----------------------------------------------------------------------------
\* C1: when one of instantiate_msg.json, execute_msg.json, query_msg.json is
\* absent, the run never writes and never completes: it can only end failed,
\* and the output file is as it was when the run started (absent, or with its
\* old contents), whichever file is missing and whatever response files exist.
C1_MissingRequiredAborts ==
    (\E i \in 1..Len(required) : dir[required[i]].kind = "absent") =>
        /\ pc \notin {"emit", "notice", "done"}
        /\ dir[OUTPUT] = out0
        /\ Writes(trace) = {}

C1_Witness ==
    /\ dir[INSTANTIATE_MSG].kind = "file"
    /\ dir[EXECUTE_MSG].kind = "absent"
    /\ dir[QUERY_MSG].kind = "file"
    /\ Discovered # {}
    /\ pc = "failed"
    /\ EXECUTE_MSG \in Reads(trace)
    /\ out0 = StaleOutput
    /\ dir[OUTPUT] = StaleOutput

\* C2: when a file the run parses (a mandatory fragment or a discovered
\* response file) is not valid JSON, the run never writes and never
\* completes, and the output file is as it was when the run started; once the
\* malformed file was read the run is failed.
C2_MalformedAborts ==
    \A f \in ParsedFiles :
        (dir[f].kind = "file" /\ ~IsValidJson(dir[f].text)) =>
            /\ pc \notin {"emit", "notice", "done"}
            /\ dir[OUTPUT] = out0
            /\ Writes(trace) = {}
            /\ (f \in Reads(trace) => pc = "failed")

C2_Witness ==
    /\ \A i \in 1..Len(required) :
          dir[required[i]].kind = "file" /\ IsValidJson(dir[required[i]].text)
    /\ \E f \in Discovered : ~IsValidJson(dir[f].text) /\ f \in Reads(trace)
    /\ QUERY_MSG \in Reads(trace)
    /\ pc = "failed"
    /\ out0 = StaleOutput
    /\ dir[OUTPUT] = StaleOutput

\* C3: the document a run wrote has exactly the six top-level keys
\* instantiate, execute, query, migrate, sudo, responses, once each, and
\* migrate and sudo are empty mappings.
C3_SixTopLevelKeys ==
    Written =>
        /\ Keys(WrittenDoc) = TopLevelKeys
        /\ Len(WrittenDoc) = 6
        /\ DictGet(WrittenDoc, "migrate") = EmptyDict
        /\ DictGet(WrittenDoc, "sudo") = EmptyDict

C3_Witness ==
    /\ pc = "done"
    /\ "sudo_response.json" \in Discovered
    /\ Parse(dir["sudo_response.json"].text) = VoteDoc
    /\ Parse(dir[INSTANTIATE_MSG].text) = VoteDoc
    /\ HasKey(WrittenResponses, "sudo")

\* C4: in the document a run wrote, instantiate is the parsed
\* instantiate_msg.json, execute the parsed execute_msg.json and query the
\* parsed query_msg.json.
C4_PassThrough ==
    Written =>
        /\ DictGet(WrittenDoc, "instantiate") = Parse(dir[INSTANTIATE_MSG].text)
        /\ DictGet(WrittenDoc, "execute") = Parse(dir[EXECUTE_MSG].text)
        /\ DictGet(WrittenDoc, "query") = Parse(dir[QUERY_MSG].text)

C4_Witness ==
    /\ pc = "done"
    /\ Parse(dir[INSTANTIATE_MSG].text) = EmptyDoc
    /\ Parse(dir[EXECUTE_MSG].text) = VoteDoc
    /\ Parse(dir[QUERY_MSG].text) = EmptyDoc
    /\ Discovered # {}

\* C5: every response file that was stored is stored under its name with the
\* suffix _response.json removed, also when the marker occurs more than once
\* in the name.
C5_KeyIsNameWithoutSuffix ==
    pc \in {"collect", "emit", "notice", "done"} =>
        \A i \in 1..Len(responses) :
            i < idx => HasKey(DictGet(schema, "responses"), RemoveSuffix(responses[i], MARKER))

\* C6: a run that succeeds after a run that succeeded in the same directory
\* writes the same document, up to the order of the keys inside responses.
C6_Idempotent ==
    (run > 1 /\ pc = "done" /\ prev = "done") =>
        SameUpToResponseOrder(WrittenDoc, Parse(out0.text))

\* Beside C6: no run selects or reads the output file, and when the response
\* files derive pairwise distinct keys a run that succeeds after a run that
\* succeeded writes the same document up to the order of the keys inside
\* responses.
C6_OutputNeverReadBack ==
    /\ OUTPUT \notin {responses[i] : i \in 1..Len(responses)}
    /\ OUTPUT \notin Reads(trace)

C6_IdempotentDistinctKeys ==
    (/\ run > 1 /\ pc = "done" /\ prev = "done"
     /\ \A f, g \in Discovered : ResponseKey(f) = ResponseKey(g) => f = g) =>
        SameUpToResponseOrder(WrittenDoc, Parse(out0.text))

\* C7: the keys of responses in the document a run wrote are exactly the keys
\* of the regular files whose names end with _response.json: none when there
\* is no such file, and one for every such file whether or not the query
\* fragment declares it.
C7_ResponseKeySet ==
    Written =>
        /\ Keys(WrittenResponses) = {ResponseKey(f) : f \in Discovered}
        /\ (Discovered = {} => WrittenResponses = EmptyDict)

C7_Witness ==
    /\ pc = "done"
    /\ Cardinality(Discovered) = 2
    /\ Cardinality(Keys(WrittenResponses)) = 2
    /\ \E k \in Keys(WrittenResponses) : k \notin QueryNames(DictGet(WrittenDoc, "query"))

\* C8 as stated: a response whose key is not a query the query fragment
\* declares does not appear in responses, and a declared query without a
\* response file does not appear either.
C8_UndeclaredDropped ==
    Written =>
        /\ \A f \in Discovered :
              ResponseKey(f) \notin QueryNames(DictGet(WrittenDoc, "query")) =>
                  ~HasKey(WrittenResponses, ResponseKey(f))
        /\ \A q \in QueryNames(DictGet(WrittenDoc, "query")) :
              q \notin {ResponseKey(f) : f \in Discovered} => ~HasKey(WrittenResponses, q)

\* C8 amended: every response file has its entry in responses whether or not
\* the query fragment declares a query of its key, and a declared query
\* without a response file has no entry.
C8_UndeclaredKept ==
    Written =>
        /\ \A f \in Discovered : HasKey(WrittenResponses, ResponseKey(f))
        /\ \A q \in QueryNames(DictGet(WrittenDoc, "query")) :
              q \notin {ResponseKey(f) : f \in Discovered} => ~HasKey(WrittenResponses, q)

C8_Witness ==
    /\ pc = "done"
    /\ QueryNames(DictGet(WrittenDoc, "query")) = {"get_vote"}
    /\ Discovered = {"sudo_response.json"}
    /\ HasKey(WrittenResponses, "sudo")
    /\ ~HasKey(WrittenResponses, "get_vote")

\* The operations of a run in which nothing fails, in order.
FullTrace(resp) ==
    << <<"print", "Generating full schema...">>, <<"listdir", ".">>,
       <<"print", "Using response files:">>,
       <<"read", INSTANTIATE_MSG>>, <<"read", EXECUTE_MSG>>, <<"read", QUERY_MSG>> >>
    \o [i \in 1..Len(resp) |-> <<"read", resp[i]>>]
    \o << <<"write", OUTPUT>>, <<"print", "DAO Voting Adapter full schema generated.">> >>

IsPrefix(a, b) == Len(a) <= Len(b) /\ SubSeq(b, 1, Len(a)) = a

\* How far the run is: it grows with every step of a run.
Progress == 2 * Len(trace) + (IF pc \in {"emit", "notice", "done"} THEN 1 ELSE 0)

\* The steps of a run (every step but the start of a new run).
RunStep ==
    \/ Start \/ Discover \/ LoadInstantiate \/ LoadExecute \/ LoadQuery
    \/ CollectResponse \/ Emit \/ Notice

\* The last operation of the run could not succeed.
LastOperationFailed ==
    /\ trace # << >>
    /\ LET op == trace[Len(trace)] IN
          \/ op[1] = "read" /\ dir[op[2]].kind # "file"
          \/ op[1] = "read" /\ ~IsValidJson(dir[op[2]].text)
          \/ op[1] = "write" /\ dir[op[2]].kind = "dir"

\* C9: the operations of a run are a prefix of: the listing, the reads of
\* instantiate, execute, query, the reads of the discovered response files,
\* the write, the completion notice.  The output file is written at most
\* once, and only after every mandatory and every discovered file was
\* parsed.  A failed run stops at the operation that failed, a finished run
\* takes no further step (only a new run can follow), and every run ends
\* done or failed: a run that is neither can take a step, and every step of
\* a run brings it closer to its end.
C9_LinearPipeline ==
    /\ [](/\ IsPrefix(trace, FullTrace(responses))
          /\ (pc = "done" <=> trace = FullTrace(responses))
          /\ (pc = "failed" => LastOperationFailed /\ Len(trace) < Len(FullTrace(responses)))
          /\ Cardinality(Writes(trace)) <= 1
          /\ (Writes(trace) # {} =>
                 \A f \in ParsedFiles :
                    f \in Reads(SubSeq(trace, 1, Min(Writes(trace)) - 1)) /\ IsValidJson(dir[f].text))
          /\ (dir[OUTPUT] # out0 => Writes(trace) # {})
          /\ (pc \notin {"done", "failed"} => ENABLED RunStep)
          /\ Progress <= 2 * Len(FullTrace(responses)) + 1)
    /\ [][/\ (pc \in {"done", "failed"} => (pc' = "start" /\ run' = run + 1 /\ dir' = dir))
          /\ (dir' # dir => (pc = "emit" /\ pc' = "notice"))
          /\ (run' = run => Progress' > Progress)]_vars

C9_Witness ==
    /\ run = 2
    /\ pc = "failed"
    /\ prev = "failed"
    /\ Len(responses) = 2
    /\ Len(trace) = 8
    /\ ~IsValidJson(dir[responses[2]].text)

\* C10: when several response files derive the same key, responses holds
\* one entry for the key and its value is the parsed contents of the last of
\* them in the order of enumeration of the run; every other key has the
\* contents of its file; and a run fails only at an operation that cannot
\* succeed (a missing or malformed file, an output that cannot be opened),
\* never because of the duplicate.
C10_LastDuplicateWins ==
    /\ Written =>
          \A f \in Discovered :
             /\ Cardinality({i \in 1..Len(WrittenResponses) :
                                WrittenResponses[i][1] = ResponseKey(f)}) = 1
             /\ DictGet(WrittenResponses, ResponseKey(f))
                   = Parse(dir[LastWithKey(ResponseKey(f))].text)
    /\ pc = "failed" => LastOperationFailed

C10_Witness ==
    /\ pc = "done"
    /\ responses = <<"get_vote_response.json_response.json", "get_vote_response.json">>
    /\ Parse(dir["get_vote_response.json_response.json"].text) = EmptyDoc
    /\ Parse(dir["get_vote_response.json"].text) = VoteDoc
    /\ WrittenResponses = << <<"get_vote", VoteDoc>> >>

====
